---- MODULE Spec2Model ----
(***************************************************************************)
(* Voice agent (pipecat-agent): the provisioning gate of run_bot           *)
(* (model_utils.ensure_ollama_model, model_utils.ensure_speaches_models),  *)
(* the session's pipeline task (bot.run_bot, its two transport event       *)
(* handlers and the runner), the /api/offer handler that spawns run_bot,   *)
(* and the /health endpoints of the pipecat and the livekit server.        *)
(***************************************************************************)
EXTENDS Integers, Sequences, FiniteSets, TLC

\* ---------------------------------------------------------------- bounds
\* Connections for which run_bot is spawned concurrently (provisioning gate).
NumSessions == 2
\* Seconds the model's clock advances per Tick of an in-flight request.
TickSeconds == 300
\* Transport events (connect, disconnect) and user utterances one session receives.
MaxEvents == 3

\* Frames a queue between two stages may hold under the backpressure policy.
QueueBound == 2

\* ------------------------------------------------------- program constants
\* timeout: float = 600.0 (ensure_ollama_model, ensure_speaches_models)
DefaultTimeout == 600

Sessions == 1..NumSessions
\* The session whose pipeline run is followed to its end.
RunSessions == {1}

\* Pipeline([...]) of run_bot, head first.
Stages == <<"input", "stt", "user_aggregator", "llm", "tts", "output", "assistant_aggregator">>
NumStages == Len(Stages)

\* messages, as run_bot seeds it.
SeedMessages == <<[role |-> "system", content |-> "SYSTEM_INSTRUCTION"],
                  [role |-> "system", content |-> "greeting directive"]>>

\* HTTP status codes Speaches answers POST /v1/models/{id} with.
StatusCodes == {200, 201, 204, 404, 500}
\* HTTP status codes Ollama answers /api/tags and /api/pull with.
OllamaStatuses == {200, 404, 500}
\* Exceptions a request can end with instead of a response:
\* httpx.TimeoutException, another httpx.HTTPError, any other Exception.
TransportErrors == {"timeout", "http", "other"}

\* ---------------------------------------------------------------- state
VARIABLES
    pc,          \* pc[s]: where run_bot of session s is suspended
    ollamaHas,   \* the Ollama catalog (/api/tags) lists OLLAMA_MODEL
    sttHas,      \* Speaches holds STT_MODEL
    ttsHas,      \* Speaches holds TTS_MODEL
    elapsed,     \* elapsed[s]: seconds the in-flight request has been pending
    reqs,        \* reqs[s]: requests sent by session s, per endpoint
    seen,        \* seen[s]: model_exists of session s, and what preceded its start
    err,         \* err[s]: the exception run_bot raised ("none" if none)
    failedAt,    \* failedAt[s]: the await at which that exception arrived
    raised,      \* raised[s]: how often a failure was raised to run_bot's caller
    clients,     \* clients[s]: httpx clients opened / closed by session s
    pipelines,   \* pipelines[s]: Pipeline / PipelineTask instances constructed
    context,     \* context[s]: the messages list shared by both aggregators
    taskq,       \* taskq[s]: frames queued on the task by task.queue_frames
    inq,         \* inq[s][i]: frames waiting at stage i of the pipeline
    pushStopped, \* pushStopped[s]: the task pushed an EndFrame and stopped pushing
    endFwd,      \* endFwd[s]: stages that have forwarded the EndFrame
    tailEnds,    \* tailEnds[s]: EndFrames that left the last stage
    events,      \* events[s]: transport events / utterances delivered so far
    hist,        \* hist[s]: observations about the run (history only)
    offer,       \* offer[s]: the POST /api/offer request that creates session s
    health       \* health: the GET /health requests of the two servers

provVars == <<pc, ollamaHas, sttHas, ttsHas, elapsed, reqs, seen, err, failedAt, raised, clients>>
pipeVars == <<pipelines, context, taskq, inq, pushStopped, endFwd, tailEnds, events, hist>>
srvVars == <<offer, health>>
vars == <<pc, ollamaHas, sttHas, ttsHas, elapsed, reqs, seen, err, failedAt, raised, clients,
          pipelines, context, taskq, inq, pushStopped, endFwd, tailEnds, events, hist, offer, health>>

InFlight == {"ollama_tags", "ollama_pull", "stt_post", "tts_post"}

NoReqs == [tags |-> 0, pull |-> 0, stt |-> 0, tts |-> 0]

\* response.raise_for_status(): raises httpx.HTTPStatusError on an error status.
raise_for_status(status) == status >= 400

\* client = httpx.AsyncClient(...)
OpenClient(c) == [c EXCEPT !.opened = @ + 1]
\* finally: await client.aclose()
CloseClient(c) == [c EXCEPT !.closed = @ + 1]

NoEvents == [connects |-> 0, disconnects |-> 0, utterances |-> 0, connected |-> FALSE]

NoHist == [endQueued |-> 0, lateEnds |-> 0, discActive |-> FALSE,
           postInject |-> FALSE, postEnd |-> FALSE, lateDelivered |-> FALSE,
           finished |-> 0]

\* Transport events and utterances session s has received.
EventCount(s) == events[s].connects + events[s].disconnects + events[s].utterances

NoSeen == [ollama |-> "unknown", prior |-> FALSE]

Presence(b) == IF b THEN "present" ELSE "absent"

\* Sessions whose ensure_ollama_model has returned normally.
OllamaEnsured == {t \in Sessions : pc[t] \in {"stt_post", "tts_post", "gate_passed", "running", "closed"}}

\* ------------------------------------------------- model_utils.py / run_bot
\* Raise, with run_bot's except clause logging the error without re-raising.
RaiseSwallowed(s, e) ==
    /\ pc' = [pc EXCEPT ![s] = "gate_passed"]
    /\ err' = [err EXCEPT ![s] = e]
    /\ failedAt' = [failedAt EXCEPT ![s] = pc[s]]
    /\ raised' = raised
    /\ clients' = [clients EXCEPT ![s] = CloseClient(@)]
    /\ elapsed' = [elapsed EXCEPT ![s] = 0]

\* Raise, without the finally clause: the client is left open.
RaiseNoClose(s, e) ==
    /\ pc' = [pc EXCEPT ![s] = "failed"]
    /\ err' = [err EXCEPT ![s] = e]
    /\ failedAt' = [failedAt EXCEPT ![s] = pc[s]]
    /\ raised' = [raised EXCEPT ![s] = @ + 1]
    /\ clients' = clients
    /\ elapsed' = [elapsed EXCEPT ![s] = 0]

\* An exception leaves the ensure_* function: the except clause logs and
\* re-raises, finally closes the client, and run_bot's except re-raises.
Raise(s, e) ==
    /\ pc' = [pc EXCEPT ![s] = "failed"]
    /\ err' = [err EXCEPT ![s] = e]
    /\ failedAt' = [failedAt EXCEPT ![s] = pc[s]]
    /\ raised' = [raised EXCEPT ![s] = @ + 1]
    /\ clients' = [clients EXCEPT ![s] = CloseClient(@)]
    /\ elapsed' = [elapsed EXCEPT ![s] = 0]

\* StartSpeaches, with both download requests sent at once (asyncio.gather).
StartSpeachesGather(s, sn) ==
    /\ pc' = [pc EXCEPT ![s] = "stt_post"]
    /\ seen' = sn
    /\ clients' = [clients EXCEPT ![s] = OpenClient(CloseClient(@))]
    /\ reqs' = [reqs EXCEPT ![s].stt = @ + 1, ![s].tts = @ + 1]
    /\ elapsed' = [elapsed EXCEPT ![s] = 0]

\* ensure_ollama_model returned; ensure_speaches_models opens its client and
\* sends POST /v1/models/{stt_model}.
StartSpeaches(s, sn) ==
    /\ pc' = [pc EXCEPT ![s] = "stt_post"]
    /\ seen' = sn
    /\ clients' = [clients EXCEPT ![s] = OpenClient(CloseClient(@))]
    /\ reqs' = [reqs EXCEPT ![s].stt = @ + 1]
    /\ elapsed' = [elapsed EXCEPT ![s] = 0]

\* ------------------------------------------------------------- server.py
NoOffer == [handler |-> "none", callbacks |-> 0, bots |-> 0, caught |-> "none"]

\* POST /api/offer arrives: offer() awaits small_webrtc_handler.handle_web_request.
Offer(s) ==
    /\ offer[s].handler = "none"
    /\ offer' = [offer EXCEPT ![s].handler = "handling"]
    /\ UNCHANGED <<provVars, pipeVars, health>>

\* webrtc_connection_callback: the connection is established and run_bot is
\* added to the request's background tasks.
webrtc_connection_callback(s) ==
    /\ offer[s].handler = "handling"
    /\ offer[s].callbacks = 0
    /\ offer' = [offer EXCEPT ![s].callbacks = @ + 1]
    /\ UNCHANGED <<provVars, pipeVars, health>>

\* handle_web_request returned: offer() returns the SDP answer to the client.
OfferAnswer(s) ==
    /\ offer[s].handler = "handling"
    /\ offer[s].callbacks = 1
    /\ offer' = [offer EXCEPT ![s].handler = "answered"]
    /\ UNCHANGED <<provVars, pipeVars, health>>

\* handle_web_request raised: offer() logs the error and re-raises; no
\* response carries the background tasks, so none of them runs.
OfferRaise(s) ==
    /\ offer[s].handler = "handling"
    /\ offer' = [offer EXCEPT ![s].handler = "raised", ![s].caught = "webrtc"]
    /\ UNCHANGED <<provVars, pipeVars, health>>

\* The background task of connection s runs, after the answer was sent:
\* run_bot calls ensure_ollama_model, which opens its client and sends
\* GET /api/tags.
RunBot(s) ==
    /\ pc[s] = "idle"
    /\ offer[s].handler = "answered"
    /\ offer[s].bots < offer[s].callbacks
    /\ offer' = [offer EXCEPT ![s].bots = @ + 1]
    /\ pc' = [pc EXCEPT ![s] = "ollama_tags"]
    /\ clients' = [clients EXCEPT ![s] = OpenClient(@)]
    /\ reqs' = [reqs EXCEPT ![s].tags = @ + 1]
    /\ seen' = [seen EXCEPT ![s].prior = (OllamaEnsured # {})]
    /\ UNCHANGED <<ollamaHas, sttHas, ttsHas, elapsed, err, failedAt, raised>>
    /\ UNCHANGED <<pipeVars, health>>

\* The clock of an in-flight request advances.
Tick(s) ==
    /\ pc[s] \in InFlight
    /\ elapsed[s] < DefaultTimeout
    /\ elapsed' = [elapsed EXCEPT ![s] = @ + TickSeconds]
    /\ UNCHANGED <<pc, ollamaHas, sttHas, ttsHas, reqs, seen, err, failedAt, raised, clients>>
    /\ UNCHANGED <<pipeVars, srvVars>>

\* MayFail, with the client built without a timeout: no request times out.
MayFailNoTimeout(s, e) ==
    e # "timeout" /\ elapsed[s] < DefaultTimeout

\* When a request may end with exception e: a timeout once the configured
\* timeout has elapsed, any other failure before that.
MayFail(s, e) ==
    IF e = "timeout" THEN elapsed[s] >= DefaultTimeout ELSE elapsed[s] < DefaultTimeout

\* OllamaTagsRespond, with the pull sent whatever the catalog lists.
OllamaTagsRespondAlwaysPull(s, status) ==
    /\ pc[s] = "ollama_tags"
    /\ elapsed[s] < DefaultTimeout
    /\ IF raise_for_status(status)
       THEN /\ Raise(s, "http")
            /\ UNCHANGED <<reqs, seen>>
       ELSE /\ seen' = [seen EXCEPT ![s].ollama = Presence(ollamaHas)]
            /\ pc' = [pc EXCEPT ![s] = "ollama_pull"]
            /\ reqs' = [reqs EXCEPT ![s].pull = @ + 1]
            /\ elapsed' = [elapsed EXCEPT ![s] = 0]
            /\ UNCHANGED <<clients, err, failedAt, raised>>
    /\ UNCHANGED <<ollamaHas, sttHas, ttsHas>>
    /\ UNCHANGED <<pipeVars, srvVars>>

\* GET /api/tags answers.
OllamaTagsRespond(s, status) ==
    /\ pc[s] = "ollama_tags"
    /\ elapsed[s] < DefaultTimeout
    /\ IF raise_for_status(status)
       THEN /\ Raise(s, "http")
            /\ UNCHANGED <<reqs, seen>>
       ELSE /\ IF ollamaHas
               THEN StartSpeaches(s, [seen EXCEPT ![s].ollama = "present"])
               ELSE /\ seen' = [seen EXCEPT ![s].ollama = "absent"]
                    /\ pc' = [pc EXCEPT ![s] = "ollama_pull"]
                    /\ reqs' = [reqs EXCEPT ![s].pull = @ + 1]
                    /\ elapsed' = [elapsed EXCEPT ![s] = 0]
                    /\ UNCHANGED clients
            /\ UNCHANGED <<err, failedAt, raised>>
    /\ UNCHANGED <<ollamaHas, sttHas, ttsHas>>
    /\ UNCHANGED <<pipeVars, srvVars>>

\* POST /api/pull answers.
OllamaPullRespond(s, status) ==
    /\ pc[s] = "ollama_pull"
    /\ elapsed[s] < DefaultTimeout
    /\ IF raise_for_status(status)
       THEN /\ Raise(s, "http")
            /\ UNCHANGED <<reqs, ollamaHas, seen>>
       ELSE /\ ollamaHas' = TRUE
            /\ StartSpeaches(s, seen)
            /\ UNCHANGED <<err, failedAt, raised>>
    /\ UNCHANGED <<sttHas, ttsHas>>
    /\ UNCHANGED <<pipeVars, srvVars>>

\* OllamaRaise, with the failed request sent once more before giving up.
OllamaRaiseRetry(s, e) ==
    /\ pc[s] \in {"ollama_tags", "ollama_pull"}
    /\ MayFail(s, e)
    /\ IF pc[s] = "ollama_tags" /\ reqs[s].tags < 2
       THEN /\ reqs' = [reqs EXCEPT ![s].tags = @ + 1]
            /\ elapsed' = [elapsed EXCEPT ![s] = 0]
            /\ UNCHANGED <<pc, err, failedAt, raised, clients>>
       ELSE IF pc[s] = "ollama_pull" /\ reqs[s].pull < 2
       THEN /\ reqs' = [reqs EXCEPT ![s].pull = @ + 1]
            /\ elapsed' = [elapsed EXCEPT ![s] = 0]
            /\ UNCHANGED <<pc, err, failedAt, raised, clients>>
       ELSE /\ Raise(s, e)
            /\ UNCHANGED reqs
    /\ UNCHANGED <<ollamaHas, sttHas, ttsHas, seen>>
    /\ UNCHANGED <<pipeVars, srvVars>>

\* A request of ensure_ollama_model ends with an exception.
OllamaRaise(s, e) ==
    /\ pc[s] \in {"ollama_tags", "ollama_pull"}
    /\ MayFail(s, e)
    /\ Raise(s, e)
    /\ UNCHANGED <<ollamaHas, sttHas, ttsHas, reqs, seen>>
    /\ UNCHANGED <<pipeVars, srvVars>>

\* POST /v1/models/{stt_model} answers: 200 (downloaded) and 201 (already
\* exists) continue; any other status goes through raise_for_status().
SttRespond(s, status) ==
    /\ pc[s] = "stt_post"
    /\ elapsed[s] < DefaultTimeout
    /\ status = 201 => sttHas
    /\ IF status \notin {200, 201} /\ raise_for_status(status)
       THEN /\ Raise(s, "http")
            /\ UNCHANGED <<reqs, sttHas>>
       ELSE /\ sttHas' = (sttHas \/ status = 200)
            /\ pc' = [pc EXCEPT ![s] = "tts_post"]
            /\ reqs' = [reqs EXCEPT ![s].tts = @ + 1]
            /\ elapsed' = [elapsed EXCEPT ![s] = 0]
            /\ UNCHANGED <<err, failedAt, raised, clients>>
    /\ UNCHANGED <<ollamaHas, ttsHas, seen>>
    /\ UNCHANGED <<pipeVars, srvVars>>

\* POST /v1/models/{tts_model} answers; on success ensure_speaches_models
\* closes its client and returns to run_bot.
TtsRespond(s, status) ==
    /\ pc[s] = "tts_post"
    /\ elapsed[s] < DefaultTimeout
    /\ status = 201 => ttsHas
    /\ IF status \notin {200, 201} /\ raise_for_status(status)
       THEN /\ Raise(s, "http")
            /\ UNCHANGED ttsHas
       ELSE /\ ttsHas' = (ttsHas \/ status = 200)
            /\ pc' = [pc EXCEPT ![s] = "gate_passed"]
            /\ clients' = [clients EXCEPT ![s] = CloseClient(@)]
            /\ elapsed' = [elapsed EXCEPT ![s] = 0]
            /\ UNCHANGED <<err, failedAt, raised>>
    /\ UNCHANGED <<ollamaHas, sttHas, reqs, seen>>
    /\ UNCHANGED <<pipeVars, srvVars>>

\* A request of ensure_speaches_models ends with an exception.
SpeachesRaise(s, e) ==
    /\ pc[s] \in {"stt_post", "tts_post"}
    /\ MayFail(s, e)
    /\ Raise(s, e)
    /\ UNCHANGED <<ollamaHas, sttHas, ttsHas, reqs, seen>>
    /\ UNCHANGED <<pipeVars, srvVars>>

\* ------------------------------------------- server.py: GET /health
\* HTTP status codes a health probe can be answered with.
ProbeStatuses == {200, 204, 404, 499, 500, 503}
\* Exceptions a probe can end with instead: httpx.TimeoutException,
\* httpx.ConnectError, any other Exception.
ProbeErrors == {"timeout", "connect", "other"}

\* How a probe (one GET with timeout=5.0) ends.
ProbeOutcomes ==
    {[kind |-> "status", code |-> c] : c \in ProbeStatuses}
        \cup {[kind |-> k, code |-> 0] : k \in ProbeErrors}

NoProbe == [kind |-> "none", code |-> 0]

\* No /health request has been received.
NoHealth ==
    [pipecat |-> [pc |-> "idle", ollama |-> NoProbe, speaches |-> NoProbe,
                  checks |-> [ollama |-> FALSE, speaches |-> FALSE],
                  status |-> "none", raised |-> "none"],
     livekit |-> [pc |-> "idle", url |-> FALSE, probe |-> NoProbe,
                  livekit |-> FALSE, status |-> "none", raised |-> "none"]]

\* The try block of a check_*_health function: the response's status is 200,
\* or the probe's exception.
ProbeIs200(o) ==
    IF o.kind = "status" THEN [value |-> o.code = 200, exc |-> "none"]
    ELSE [value |-> FALSE, exc |-> o.kind]

\* check_ollama_health over GET /api/tags; except Exception: return False.
check_ollama_health(o) ==
    IF ProbeIs200(o).exc # "none" THEN [value |-> FALSE, exc |-> "none"] ELSE ProbeIs200(o)

\* check_speaches_health over GET /v1/models; except Exception: return False.
check_speaches_health(o) ==
    IF ProbeIs200(o).exc # "none" THEN [value |-> FALSE, exc |-> "none"] ELSE ProbeIs200(o)

\* HealthStatus, with any() in place of all().
HealthStatusAny(checks) ==
    IF checks.ollama \/ checks.speaches THEN "healthy" ELSE "degraded"

\* status = "healthy" if all(checks.values()) else "degraded"
HealthStatus(checks) ==
    IF checks.ollama /\ checks.speaches THEN "healthy" ELSE "degraded"

\* pipecat health_check awaits check_ollama_health(); an exception that
\* escaped it would end the request.
CheckOllama ==
    /\ health.pipecat.pc = "start"
    /\ LET r == check_ollama_health(health.pipecat.ollama) IN
        health' = [health EXCEPT
                      !.pipecat.pc = IF r.exc # "none" THEN "done" ELSE "ollama_checked",
                      !.pipecat.raised = r.exc,
                      !.pipecat.checks.ollama = r.value]
    /\ UNCHANGED <<provVars, pipeVars, offer>>

\* pipecat health_check awaits check_speaches_health(); likewise.
CheckSpeaches ==
    /\ health.pipecat.pc = "ollama_checked"
    /\ LET r == check_speaches_health(health.pipecat.speaches) IN
        health' = [health EXCEPT
                      !.pipecat.pc = IF r.exc # "none" THEN "done" ELSE "speaches_checked",
                      !.pipecat.raised = r.exc,
                      !.pipecat.checks.speaches = r.value]
    /\ UNCHANGED <<provVars, pipeVars, offer>>

\* pipecat health_check returns {"status": status, "checks": checks}.
HealthRespond ==
    /\ health.pipecat.pc = "speaches_checked"
    /\ health' = [health EXCEPT !.pipecat.pc = "done",
                                !.pipecat.status = HealthStatus(health.pipecat.checks)]
    /\ UNCHANGED <<provVars, pipeVars, offer>>

\* The inner try of livekit's health_check: the probe's status is below 500;
\* TimeoutException and ConnectError are caught, any other exception goes on.
LivekitProbe(o) ==
    IF o.kind = "status" THEN [healthy |-> o.code < 500, exc |-> "none"]
    ELSE IF o.kind \in {"timeout", "connect"} THEN [healthy |-> FALSE, exc |-> "none"]
    ELSE [healthy |-> FALSE, exc |-> o.kind]

\* LivekitHealthy, without the outer except clause.
LivekitHealthyNoOuterExcept(url, o) ==
    IF ~url THEN [healthy |-> FALSE, exc |-> "none"]
    ELSE LivekitProbe(o)

\* The outer try of livekit's health_check: no probe without a configured
\* URL; except Exception: livekit_healthy = False.
LivekitHealthy(url, o) ==
    IF ~url THEN [healthy |-> FALSE, exc |-> "none"]
    ELSE IF LivekitProbe(o).exc # "none" THEN [healthy |-> FALSE, exc |-> "none"]
    ELSE LivekitProbe(o)

\* livekit health_check: probes the LiveKit server and returns the
\* HealthCheckResponse; an exception that escapes is raised to the caller.
LivekitHealthCheck ==
    /\ health.livekit.pc = "start"
    /\ LET r == LivekitHealthy(health.livekit.url, health.livekit.probe) IN
        health' = [health EXCEPT
                      !.livekit.pc = "done",
                      !.livekit.livekit = r.healthy,
                      !.livekit.raised = r.exc,
                      !.livekit.status = IF r.exc # "none" THEN "none"
                                         ELSE IF r.healthy THEN "healthy" ELSE "degraded"]
    /\ UNCHANGED <<provVars, pipeVars, offer>>

\* No connection has been offered yet.
BaseInit ==
    /\ pc = [s \in Sessions |-> "idle"]
    /\ ollamaHas \in BOOLEAN
    /\ sttHas \in BOOLEAN
    /\ ttsHas \in BOOLEAN
    /\ elapsed = [s \in Sessions |-> 0]
    /\ reqs = [s \in Sessions |-> NoReqs]
    /\ seen = [s \in Sessions |-> NoSeen]
    /\ err = [s \in Sessions |-> "none"]
    /\ failedAt = [s \in Sessions |-> "none"]
    /\ raised = [s \in Sessions |-> 0]
    /\ clients = [s \in Sessions |-> [opened |-> 0, closed |-> 0]]
    /\ pipelines = [s \in Sessions |-> 0]
    /\ context = [s \in Sessions |-> <<>>]
    /\ taskq = [s \in Sessions |-> <<>>]
    /\ inq = [s \in Sessions |-> [i \in 1..NumStages |-> <<>>]]
    /\ pushStopped = [s \in Sessions |-> FALSE]
    /\ endFwd = [s \in Sessions |-> 0]
    /\ tailEnds = [s \in Sessions |-> 0]
    /\ events = [s \in Sessions |-> NoEvents]
    /\ hist = [s \in Sessions |-> NoHist]
    /\ offer = [s \in Sessions |-> NoOffer]

Init == BaseInit /\ health = NoHealth

\* A GET /health request has arrived at each of the two servers; the probes
\* end in any of the ways a probe can end.
HealthInit ==
    /\ BaseInit /\ ollamaHas /\ sttHas /\ ttsHas
    /\ \E o, p, q \in ProbeOutcomes : \E u \in BOOLEAN :
          health = [pipecat |-> [NoHealth.pipecat EXCEPT !.pc = "start", !.ollama = o, !.speaches = p],
                    livekit |-> [NoHealth.livekit EXCEPT !.pc = "start", !.url = u, !.probe = q]]

\* ------------------------------------------------------------------ bot.py
\* BuildAndRun, with a second Pipeline and PipelineTask built for the session.
BuildAndRunTwoChains(s) ==
    /\ pc[s] = "gate_passed"
    /\ pc' = [pc EXCEPT ![s] = "running"]
    /\ pipelines' = [pipelines EXCEPT ![s] = @ + 2]
    /\ context' = [context EXCEPT ![s] = SeedMessages]
    /\ UNCHANGED <<ollamaHas, sttHas, ttsHas, elapsed, reqs, seen, err, failedAt, raised, clients>>
    /\ UNCHANGED <<taskq, inq, pushStopped, endFwd, tailEnds, events, hist>>
    /\ UNCHANGED srvVars

\* Both ensure_* calls returned: run_bot constructs the transport, the
\* services, messages, both aggregators, the Pipeline and the PipelineTask,
\* registers the two event handlers and awaits runner.run(task).
BuildAndRun(s) ==
    /\ pc[s] = "gate_passed"
    /\ pc' = [pc EXCEPT ![s] = "running"]
    /\ pipelines' = [pipelines EXCEPT ![s] = @ + 1]
    /\ context' = [context EXCEPT ![s] = SeedMessages]
    /\ UNCHANGED <<ollamaHas, sttHas, ttsHas, elapsed, reqs, seen, err, failedAt, raised, clients>>
    /\ UNCHANGED <<taskq, inq, pushStopped, endFwd, tailEnds, events, hist>>
    /\ UNCHANGED srvVars

\* The lifecycle state of session s.
Provisioning(s) == pc[s] \in InFlight \cup {"gate_passed"}
Active(s) == pc[s] = "running" /\ hist[s].endQueued = 0
Closing(s) == pc[s] = "running" /\ hist[s].endQueued > 0
Closed(s) == pc[s] = "closed"
Failed(s) == pc[s] = "failed"

\* on_client_connected: await task.queue_frames([LLMMessagesFrame(messages)])
on_client_connected(s) ==
    /\ pipelines[s] > 0
    /\ EventCount(s) < MaxEvents
    /\ events' = [events EXCEPT ![s].connects = @ + 1, ![s].connected = TRUE]
    /\ taskq' = [taskq EXCEPT ![s] =
                    Append(@, [kind |-> "LLMMessagesFrame", late |-> hist[s].endQueued > 0])]
    /\ UNCHANGED <<provVars, srvVars>>
    /\ UNCHANGED <<pipelines, context, inq, pushStopped, endFwd, tailEnds, hist>>

\* on_client_disconnected, logging the event without queueing the EndFrame.
on_client_disconnected_log_only(s) ==
    /\ pipelines[s] > 0
    /\ EventCount(s) < MaxEvents
    /\ events' = [events EXCEPT ![s].disconnects = @ + 1, ![s].connected = FALSE]
    /\ hist' = [hist EXCEPT ![s].discActive = @ \/ Active(s)]
    /\ UNCHANGED <<provVars, srvVars>>
    /\ UNCHANGED <<pipelines, context, taskq, inq, pushStopped, endFwd, tailEnds>>

\* on_client_disconnected: await task.queue_frames([EndFrame()])
on_client_disconnected(s) ==
    /\ pipelines[s] > 0
    /\ EventCount(s) < MaxEvents
    /\ events' = [events EXCEPT ![s].disconnects = @ + 1, ![s].connected = FALSE]
    /\ taskq' = [taskq EXCEPT ![s] =
                    Append(@, [kind |-> "EndFrame", late |-> hist[s].endQueued > 0])]
    /\ hist' = [hist EXCEPT ![s].endQueued = @ + 1,
                            ![s].discActive = @ \/ Active(s),
                            ![s].lateEnds = IF Active(s) THEN @ ELSE @ + 1]
    /\ UNCHANGED <<provVars, srvVars>>
    /\ UNCHANGED <<pipelines, context, inq, pushStopped, endFwd, tailEnds>>

\* Frames that are not control frames.
Ordinary(f) == f # "EndFrame"

HasOrdinary(fs) == \E k \in 1..Len(fs) : Ordinary(fs[k])

\* What stage i emits downstream when it consumes frame f.
Emit(i, f) ==
    CASE Stages[i] = "stt" /\ f = "AudioFrame" -> <<"TranscriptionFrame">>
      [] Stages[i] = "user_aggregator" /\ f = "TranscriptionFrame" -> <<"LLMMessagesFrame">>
      [] Stages[i] = "llm" /\ f = "LLMMessagesFrame" -> <<"TextFrame">>
      [] Stages[i] = "tts" /\ f = "TextFrame" -> <<"TTSAudioFrame", "TextFrame">>
      [] Stages[i] = "output" /\ f = "TTSAudioFrame" -> <<>>
      [] Stages[i] = "assistant_aggregator" /\ f = "TextFrame" -> <<>>
      [] OTHER -> <<f>>

\* messages after stage i consumed frame f: the user aggregator appends the
\* transcribed user message, the assistant aggregator the LLM's reply.
Aggregate(i, f, messages) ==
    CASE Stages[i] = "user_aggregator" /\ f = "TranscriptionFrame" ->
            Append(messages, [role |-> "user", content |-> "transcript"])
      [] Stages[i] = "assistant_aggregator" /\ f = "TextFrame" ->
            Append(messages, [role |-> "assistant", content |-> "reply"])
      [] OTHER -> messages

\* The connected user speaks: the input transport emits the audio downstream.
UserSpeaks(s) ==
    /\ pc[s] = "running"
    /\ events[s].connected
    /\ endFwd[s] = 0
    /\ EventCount(s) < MaxEvents
    /\ events' = [events EXCEPT ![s].utterances = @ + 1]
    /\ inq' = [inq EXCEPT ![s][2] = Append(@, "AudioFrame")]
    /\ hist' = [hist EXCEPT ![s].postInject = @ \/ hist[s].endQueued > 0]
    /\ UNCHANGED <<provVars, srvVars>>
    /\ UNCHANGED <<pipelines, context, taskq, pushStopped, endFwd, tailEnds>>

\* TaskPush, with the task pushing on after it has pushed an EndFrame.
TaskPushKeepsPushing(s) ==
    /\ pc[s] = "running"
    /\ taskq[s] # <<>>
    /\ LET f == Head(taskq[s]) IN
        /\ taskq' = [taskq EXCEPT ![s] = Tail(@)]
        /\ inq' = [inq EXCEPT ![s][1] = Append(@, f.kind)]
        /\ pushStopped' = [pushStopped EXCEPT ![s] = @ \/ (f.kind = "EndFrame")]
        /\ hist' = [hist EXCEPT ![s].lateDelivered = @ \/ f.late]
    /\ UNCHANGED <<provVars, srvVars>>
    /\ UNCHANGED <<pipelines, context, endFwd, tailEnds, events>>

\* The running task takes the next queued frame and pushes it into the first
\* stage; it stops pushing once it has pushed an EndFrame.
TaskPush(s) ==
    /\ pc[s] = "running"
    /\ ~pushStopped[s]
    /\ taskq[s] # <<>>
    /\ LET f == Head(taskq[s]) IN
        /\ taskq' = [taskq EXCEPT ![s] = Tail(@)]
        /\ inq' = [inq EXCEPT ![s][1] = Append(@, f.kind)]
        /\ pushStopped' = [pushStopped EXCEPT ![s] = (f.kind = "EndFrame")]
        /\ hist' = [hist EXCEPT ![s].lateDelivered = @ \/ f.late]
    /\ UNCHANGED <<provVars, srvVars>>
    /\ UNCHANGED <<pipelines, context, endFwd, tailEnds, events>>

\* StageStep, with messages a module-level list that the aggregators of every
\* session were constructed over.
StageStepSharedMessages(s, i) ==
    /\ pc[s] = "running"
    /\ inq[s][i] # <<>>
    /\ LET f == Head(inq[s][i])
           out == Emit(i, f)
       IN
        /\ context' = [t \in Sessions |->
                          IF pipelines[t] > 0 THEN Aggregate(i, f, context[t]) ELSE context[t]]
        /\ inq' = [inq EXCEPT ![s] =
                      [j \in 1..NumStages |->
                          IF j = i THEN Tail(inq[s][i])
                          ELSE IF j = i + 1 THEN inq[s][j] \o out
                          ELSE inq[s][j]]]
        /\ endFwd' = [endFwd EXCEPT ![s] = IF f = "EndFrame" THEN i ELSE @]
        /\ tailEnds' = [tailEnds EXCEPT ![s] =
                          IF i = NumStages /\ f = "EndFrame" THEN @ + 1 ELSE @]
        /\ pc' = [pc EXCEPT ![s] =
                          IF i = NumStages /\ f = "EndFrame" THEN "closed" ELSE @]
        /\ hist' = [hist EXCEPT
                      ![s].postInject = @ \/ (hist[s].endQueued > 0 /\ HasOrdinary(out)),
                      ![s].postEnd = @ \/ (endFwd[s] >= i /\ out # <<>>),
                      ![s].finished = IF i = NumStages /\ f = "EndFrame" THEN @ + 1 ELSE @]
    /\ UNCHANGED <<ollamaHas, sttHas, ttsHas, elapsed, reqs, seen, err, failedAt, raised, clients>>
    /\ UNCHANGED <<pipelines, taskq, pushStopped, events>>
    /\ UNCHANGED srvVars

\* Stage i consumes the frame at the head of its queue and emits downstream;
\* an EndFrame leaving the last stage ends the task, runner.run returns and
\* run_bot's finally clause logs "Pipeline runner finished".
StageStep(s, i) ==
    /\ pc[s] = "running"
    /\ inq[s][i] # <<>>
    /\ LET f == Head(inq[s][i])
           out == Emit(i, f)
       IN
        /\ context' = [context EXCEPT ![s] = Aggregate(i, f, @)]
        /\ inq' = [inq EXCEPT ![s] =
                      [j \in 1..NumStages |->
                          IF j = i THEN Tail(inq[s][i])
                          ELSE IF j = i + 1 THEN inq[s][j] \o out
                          ELSE inq[s][j]]]
        /\ endFwd' = [endFwd EXCEPT ![s] = IF f = "EndFrame" THEN i ELSE @]
        /\ tailEnds' = [tailEnds EXCEPT ![s] =
                          IF i = NumStages /\ f = "EndFrame" THEN @ + 1 ELSE @]
        /\ pc' = [pc EXCEPT ![s] =
                          IF i = NumStages /\ f = "EndFrame" THEN "closed" ELSE @]
        /\ hist' = [hist EXCEPT
                      ![s].postInject = @ \/ (hist[s].endQueued > 0 /\ HasOrdinary(out)),
                      ![s].postEnd = @ \/ (endFwd[s] >= i /\ out # <<>>),
                      ![s].finished = IF i = NumStages /\ f = "EndFrame" THEN @ + 1 ELSE @]
    /\ UNCHANGED <<ollamaHas, sttHas, ttsHas, elapsed, reqs, seen, err, failedAt, raised, clients>>
    /\ UNCHANGED <<pipelines, taskq, pushStopped, events>>
    /\ UNCHANGED srvVars

\* RunnerRaise, with the except clause logging the error without re-raising.
RunnerRaiseSwallowed(s) ==
    /\ pc[s] = "running"
    /\ pc' = [pc EXCEPT ![s] = "closed"]
    /\ err' = [err EXCEPT ![s] = "stage"]
    /\ failedAt' = [failedAt EXCEPT ![s] = "running"]
    /\ hist' = [hist EXCEPT ![s].finished = @ + 1]
    /\ UNCHANGED <<ollamaHas, sttHas, ttsHas, elapsed, reqs, seen, clients, raised>>
    /\ UNCHANGED <<pipelines, context, taskq, inq, pushStopped, endFwd, tailEnds, events>>
    /\ UNCHANGED srvVars

\* A stage error escapes runner.run(task): run_bot logs it and re-raises,
\* and its finally clause logs "Pipeline runner finished".
RunnerRaise(s) ==
    /\ pc[s] = "running"
    /\ pc' = [pc EXCEPT ![s] = "failed"]
    /\ err' = [err EXCEPT ![s] = "stage"]
    /\ failedAt' = [failedAt EXCEPT ![s] = "running"]
    /\ raised' = [raised EXCEPT ![s] = @ + 1]
    /\ hist' = [hist EXCEPT ![s].finished = @ + 1]
    /\ UNCHANGED <<ollamaHas, sttHas, ttsHas, elapsed, reqs, seen, clients>>
    /\ UNCHANGED <<pipelines, context, taskq, inq, pushStopped, endFwd, tailEnds, events>>
    /\ UNCHANGED srvVars

\* ---------------------------------------------------------- specifications
\* One step of the provisioning gate of session s, up to the start of its runner.
GateStep(s) ==
    \/ Offer(s)
    \/ webrtc_connection_callback(s)
    \/ OfferAnswer(s)
    \/ OfferRaise(s)
    \/ RunBot(s)
    \/ Tick(s)
    \/ \E status \in OllamaStatuses : OllamaTagsRespond(s, status)
    \/ \E status \in OllamaStatuses : OllamaPullRespond(s, status)
    \/ \E e \in TransportErrors : OllamaRaise(s, e)
    \/ \E status \in StatusCodes : SttRespond(s, status)
    \/ \E status \in StatusCodes : TtsRespond(s, status)
    \/ \E e \in TransportErrors : SpeachesRaise(s, e)
    \/ BuildAndRun(s)

\* One step of the running pipeline of session s.
RunStep(s) ==
    \/ on_client_connected(s)
    \/ on_client_disconnected(s)
    \/ UserSpeaks(s)
    \/ TaskPush(s)
    \/ \E i \in 1..NumStages : StageStep(s, i)
    \/ RunnerRaise(s)

\* The gate of NumSessions sessions started concurrently.
GateNext == \E s \in Sessions : GateStep(s)

\* The whole life of the followed session.
Next == \E s \in RunSessions : GateStep(s) \/ RunStep(s)

GateSpec == Init /\ [][GateNext]_vars

\* The two /health endpoints.
HealthNext == CheckOllama \/ CheckSpeaches \/ HealthRespond \/ LivekitHealthCheck

HealthSpec == HealthInit /\ [][HealthNext]_vars

\* Two sessions whose pipelines run concurrently, all models being available
\* from the start: the first receives its connect event and further events,
\* the second one event (its greeting).
IsoSessions == {1, 2}
IsoEvents == <<MaxEvents - 1, 1>>

IsoInit == Init /\ ollamaHas /\ sttHas /\ ttsHas

\* One step of session s in that scenario.
IsoStep(s) ==
    \/ Offer(s)
    \/ webrtc_connection_callback(s)
    \/ OfferAnswer(s)
    \/ RunBot(s)
    \/ OllamaTagsRespond(s, 200)
    \/ \E status \in {200, 201} : SttRespond(s, status)
    \/ \E status \in {200, 201} : TtsRespond(s, status)
    \/ BuildAndRun(s)
    \/ (EventCount(s) < IsoEvents[s] /\ on_client_connected(s))
    \/ (EventCount(s) < IsoEvents[s] /\ on_client_disconnected(s))
    \/ (EventCount(s) < IsoEvents[s] /\ UserSpeaks(s))
    \/ TaskPush(s)
    \/ \E i \in 1..NumStages : StageStep(s, i)

IsoNext == \E s \in IsoSessions : IsoStep(s)

IsoSpec == IsoInit /\ [][IsoNext]_vars

Spec == Init /\ [][Next]_vars

\* asyncio runs every ready task, and httpx ends a request whose timeout has
\* elapsed: the clock, the timeouts, run_bot's own steps, the task's push
\* loop and every stage make progress. No response, event or error is assumed.
Fairness ==
    \A s \in RunSessions :
        /\ WF_vars(Tick(s))
        /\ WF_vars(OllamaRaise(s, "timeout"))
        /\ WF_vars(SpeachesRaise(s, "timeout"))
        /\ WF_vars(BuildAndRun(s))
        /\ WF_vars(TaskPush(s))
        /\ \A i \in 1..NumStages : WF_vars(StageStep(s, i))

FairSpec == Spec /\ Fairness

\* ------------------------------------------------------------------ claims
\* Provisioning requests for OLLAMA_MODEL that are in flight at once.
PullsInFlight == {s \in Sessions : pc[s] = "ollama_pull"}

\* How ensure_ollama_model ended for session s.
OllamaOutcome(s) ==
    IF s \in OllamaEnsured \/ failedAt[s] \in {"stt_post", "tts_post", "running"} THEN "available"
    ELSE IF failedAt[s] \in {"ollama_tags", "ollama_pull"} THEN "failed"
    ELSE "pending"

\* C1 (as claimed): sessions that ensure the same absent model concurrently
\* share one pull request - never two pulls in flight at once - and the
\* sessions that found the model absent all end with the same outcome.
C1_SingleFlight ==
    /\ Cardinality(PullsInFlight) <= 1
    /\ \A s, t \in Sessions :
          (seen[s].ollama = "absent" /\ seen[t].ollama = "absent"
              /\ OllamaOutcome(s) # "pending" /\ OllamaOutcome(t) # "pending")
          => OllamaOutcome(s) = OllamaOutcome(t)

\* A provisioning failure of session s: an ensure_* call raised.
ProvisioningFailed(s) == failedAt[s] \in InFlight

\* C2: a session one of whose provisioning calls failed is Failed and owns no
\* pipeline, context or queued frame and never runs; a session that owns a
\* pipeline has had all of its provisioning requests answered without failure.
C2_AllOrNothingGate ==
    \A s \in Sessions :
        /\ ProvisioningFailed(s) =>
              /\ Failed(s)
              /\ pipelines[s] = 0
              /\ context[s] = <<>>
              /\ taskq[s] = <<>>
              /\ events[s] = NoEvents
        /\ (pipelines[s] > 0 \/ pc[s] \in {"running", "closed"}) =>
              /\ ~ProvisioningFailed(s)
              /\ reqs[s].tags = 1 /\ reqs[s].stt = 1 /\ reqs[s].tts = 1

\* C2 witness: the STT request succeeded, the TTS request failed, and the
\* session is Failed without a pipeline.
C2_Witness ==
    \E s \in Sessions :
        failedAt[s] = "tts_post" /\ reqs[s].stt = 1 /\ Failed(s) /\ pipelines[s] = 0

PastStt(s) == pc[s] \in {"tts_post", "gate_passed", "running", "closed"} \/ failedAt[s] \in {"tts_post", "running"}
PastTts(s) == pc[s] \in {"gate_passed", "running", "closed"} \/ failedAt[s] = "running"

C5_StatusCached ==
    \A s \in Sessions : seen[s].prior => (reqs[s].tags = 0 /\ reqs[s].pull = 0)

\* C6: within one session start every remote request is sent at most once;
\* a failed request is followed by no further request; and the failure is
\* raised to the caller exactly once.
C6_NoInternalRetry ==
    \A s \in Sessions :
        /\ reqs[s].tags <= 1 /\ reqs[s].pull <= 1 /\ reqs[s].stt <= 1 /\ reqs[s].tts <= 1
        /\ raised[s] <= 1
        /\ ProvisioningFailed(s) => (Failed(s) /\ raised[s] = 1)
        /\ failedAt[s] = "ollama_tags" => (reqs[s].pull = 0 /\ reqs[s].stt = 0 /\ reqs[s].tts = 0)
        /\ failedAt[s] = "ollama_pull" => (reqs[s].stt = 0 /\ reqs[s].tts = 0)
        /\ failedAt[s] = "stt_post" => reqs[s].tts = 0

\* C6 witness: the pull failed after the catalog query, and nothing was sent after it.
C6_Witness ==
    \E s \in Sessions :
        /\ failedAt[s] = "ollama_pull" /\ raised[s] = 1
        /\ reqs[s] = [tags |-> 1, pull |-> 1, stt |-> 0, tts |-> 0]

\* The roles of the messages of session s, in order.
Roles(s) == [k \in 1..Len(context[s]) |-> context[s][k].role]

\* The greeting frame has been queued on the task of session s.
GreetingQueued(s) == events[s].connects > 0

\* C7 (as claimed): a session past the gate has its context seeded with the
\* system instruction first, the greeting directive is queued only on a built
\* pipeline whose gate passed, and no user message is in the context unless
\* an assistant message precedes it.
C7_GreetFirst ==
    \A s \in Sessions :
        /\ pipelines[s] > 0 =>
              (Len(context[s]) >= 1 /\ context[s][1] = SeedMessages[1])
        /\ GreetingQueued(s) => (pipelines[s] > 0 /\ ~ProvisioningFailed(s))
        /\ \A k \in 1..Len(context[s]) :
              Roles(s)[k] = "user" => \E j \in 1..(k - 1) : Roles(s)[j] = "assistant"

\* C8 (as claimed): a session that received a disconnect event while Active
\* eventually is Closed.
C8_GracefulClose ==
    \A s \in RunSessions : hist[s].discActive ~> Closed(s)

\* runner.run raised for session s.
StageFailed(s) == Failed(s) /\ err[s] = "stage"

\* C8 (amended): a disconnect event on an Active session queues an EndFrame on
\* the task, and the session eventually is Closed - the EndFrame then has been
\* forwarded by every stage and left the tail once - unless a stage error
\* escapes the runner first, in which case the session is Failed.
C8_GracefulCloseOrFailed ==
    /\ \A s \in RunSessions : hist[s].discActive ~> (Closed(s) \/ StageFailed(s))
    /\ [](\A s \in RunSessions :
            /\ hist[s].discActive => hist[s].endQueued >= 1
            /\ Closed(s) => (hist[s].endQueued >= 1 /\ endFwd[s] = NumStages /\ tailEnds[s] = 1))

\* C8 witness: the session was disconnected while Active and is Closed.
C8_Witness ==
    \E s \in RunSessions : hist[s].discActive /\ Closed(s) /\ endFwd[s] = NumStages

\* C9 (as claimed): the disconnect handler invoked on a session that is
\* already Closing, Closed or Failed queues no further EndFrame.
C9_IdempotentTeardown ==
    \A s \in Sessions : hist[s].lateEnds = 0

StageIndex(name) == CHOOSE i \in 1..NumStages : Stages[i] = name

\* The stage that receives what stage i emits ("none" after the last stage).
Downstream(i) == IF i < NumStages THEN Stages[i + 1] ELSE "none"

\* The chain of the claim, head first.
ClaimedStages == <<"input", "vad", "stt", "user_aggregator", "llm",
                   "assistant_aggregator", "tts", "output">>

\* C11 (as claimed): the chain of every session that built its pipeline is
\* input, voice-activity gate, STT, user aggregator, LLM, assistant
\* aggregator, TTS, output; the assistant aggregator receives what the LLM
\* emits, the TTS what the assistant aggregator emits, and the output adapter
\* is the last stage.
C11_StageOrder ==
    \A s \in Sessions :
        pipelines[s] > 0 =>
            /\ Stages = ClaimedStages
            /\ Downstream(StageIndex("llm")) = "assistant_aggregator"
            /\ Downstream(StageIndex("assistant_aggregator")) = "tts"
            /\ StageIndex("assistant_aggregator") < StageIndex("output")
            /\ Downstream(StageIndex("output")) = "none"

\* Ordinary frames queued on the task of session s that were never pushed.
Undelivered(s) == {k \in 1..Len(taskq[s]) : Ordinary(taskq[s][k].kind)}

\* C13 (as claimed): the queue in front of every stage, and the task's own
\* queue at the head of the chain, never holds more than the bound - a
\* producer suspends instead - and no ordinary frame is dropped: when the
\* runner has returned, none is left behind undelivered.
C13_Backpressure ==
    \A s \in Sessions :
        /\ \A i \in 1..NumStages : Len(inq[s][i]) <= QueueBound
        /\ Len(taskq[s]) <= QueueBound
        /\ Closed(s) => Undelivered(s) = {}

\* C14 (as claimed): a provisioning failure of session s reaches the offer()
\* handler that created the session - its except clause catches that failure -
\* before the handler has answered the connection attempt.
C14_ReportedUpward ==
    \A s \in Sessions :
        ProvisioningFailed(s) =>
            (offer[s].handler = "raised" /\ offer[s].caught = err[s])

\* C15: a stage error can only escape a running pipeline, and the step that
\* raises it makes the session Failed, raised once to run_bot's caller; a
\* Failed session stays Failed and no pipeline is built for it again; and the
\* "runner finished" step has run exactly once in every session whose runner
\* ended, by a stage error or by the EndFrame, and in no session still running.
C15_FatalStageError ==
    /\ [][\A s \in Sessions :
            (err'[s] = "stage" /\ err[s] # "stage") =>
                /\ pc[s] = "running"
                /\ pc'[s] = "failed"
                /\ raised'[s] = raised[s] + 1]_vars
    /\ [][\A s \in Sessions :
            Failed(s) => (pc'[s] = "failed" /\ pipelines'[s] = pipelines[s])]_vars
    /\ [](\A s \in Sessions :
            /\ err[s] = "stage" =>
                  (Failed(s) /\ pipelines[s] = 1 /\ raised[s] = 1 /\ hist[s].finished = 1)
            /\ Closed(s) => hist[s].finished = 1
            /\ pc[s] = "running" => hist[s].finished = 0
            /\ ProvisioningFailed(s) => hist[s].finished = 0)

\* C15 witness: a stage error escaped the pipeline of a session whose client
\* had connected; the session is Failed and the "runner finished" step ran.
C15_Witness ==
    \E s \in Sessions :
        /\ StageFailed(s) /\ events[s].connects > 0
        /\ hist[s].finished = 1 /\ pipelines[s] = 1

\* C16: every connection's callback runs at most once and spawns at most one
\* run_bot, run_bot builds at most one Pipeline / PipelineTask, and a session
\* whose runner is running or has ended was spawned once and owns exactly one.
C16_OnePipelinePerSession ==
    \A s \in Sessions :
        /\ offer[s].callbacks <= 1
        /\ offer[s].bots <= offer[s].callbacks
        /\ pipelines[s] <= offer[s].bots
        /\ pc[s] # "idle" => offer[s].bots = 1
        /\ pc[s] \in {"running", "closed"} => pipelines[s] = 1
        /\ pipelines[s] > 0 => pc[s] \in {"running", "closed", "failed"}

\* C16 witness: every connection was established and runs its own pipeline.
C16_Witness ==
    \A s \in Sessions :
        pc[s] = "running" /\ pipelines[s] = 1 /\ offer[s].callbacks = 1 /\ offer[s].bots = 1

\* C17 (as claimed): ensure_speaches_models goes on to the TTS model only
\* when the STT model is Available, and returns normally only when both
\* models are; an exception of either request leaves the session Failed.
C17_OutcomeMapping ==
    \A s \in Sessions :
        /\ PastStt(s) => sttHas
        /\ PastTts(s) => (sttHas /\ ttsHas)
        /\ failedAt[s] \in {"stt_post", "tts_post"} => (Failed(s) /\ pipelines[s] = 0)

\* The messages of session s that have role r.
WithRole(s, r) == {k \in 1..Len(context[s]) : context[s][k].role = r}

\* C18: a session's context exists only once its own run_bot has built it;
\* no step of one session changes the context of another session; and a
\* context holds a user message only if its own session's user has spoken.
C18_SessionIsolation ==
    /\ [][\A s \in IsoSessions : \A t \in IsoSessions \ {s} :
            IsoStep(s) => context'[t] = context[t]]_vars
    /\ [](\A s \in IsoSessions :
            /\ pipelines[s] = 0 => context[s] = <<>>
            /\ events[s].utterances = 0 => WithRole(s, "user") = {}
            /\ events[s].connects = 0 => WithRole(s, "assistant") = {})

\* C18 witness: both sessions run; the first appended its user's turn, the
\* second, whose user never spoke, its own greeting reply only.
C18_Witness ==
    /\ pc[1] = "running" /\ pc[2] = "running"
    /\ WithRole(1, "user") # {}
    /\ WithRole(2, "assistant") # {} /\ WithRole(2, "user") = {}
    /\ context[1] # context[2]

\* The probe was answered with HTTP 200.
Answered200(o) == o.kind = "status" /\ o.code = 200

\* C19: a finished pipecat health check reports "healthy" exactly if both
\* probes were answered with 200 and "degraded" otherwise; a finished livekit
\* health check reports "healthy" exactly if a URL is configured and the probe
\* was answered with a status below 500, "degraded" otherwise; neither raises.
C19_HealthDegrades ==
    /\ health.pipecat.pc = "done" =>
          /\ health.pipecat.status \in {"healthy", "degraded"}
          /\ health.pipecat.status = "healthy" <=>
                (Answered200(health.pipecat.ollama) /\ Answered200(health.pipecat.speaches))
          /\ health.pipecat.raised = "none"
    /\ health.livekit.pc = "done" =>
          /\ health.livekit.status \in {"healthy", "degraded"}
          /\ health.livekit.status = "healthy" <=>
                /\ health.livekit.url
                /\ health.livekit.probe.kind = "status"
                /\ health.livekit.probe.code < 500
          /\ health.livekit.raised = "none"

\* C19 witness: Ollama answered 200 and the Speaches probe timed out, and the
\* LiveKit probe ended with an exception other than timeout and connection
\* error; both endpoints answered "degraded".
C19_Witness ==
    /\ health.pipecat.pc = "done" /\ health.pipecat.status = "degraded"
    /\ Answered200(health.pipecat.ollama) /\ health.pipecat.speaches.kind = "timeout"
    /\ health.livekit.pc = "done" /\ health.livekit.status = "degraded"
    /\ health.livekit.url /\ health.livekit.probe.kind = "other"

\* Requests session s has sent to Speaches.
SpeachesReqs(s) == reqs[s].stt + reqs[s].tts

\* C20: within one session start a Speaches request has been sent only after
\* the Ollama step ended without failure - the catalog listed the model, or
\* the pull that followed was answered - and the TTS request only after the
\* STT request was answered; while a request is in flight, none of a later
\* step has been sent; and a failure of the Ollama step or of the STT request
\* leaves every later request unsent.
C20_SequentialProvisioning ==
    \A s \in Sessions :
        /\ pc[s] \in {"idle", "ollama_tags", "ollama_pull"} => SpeachesReqs(s) = 0
        /\ pc[s] = "ollama_tags" => reqs[s].pull = 0
        /\ pc[s] = "stt_post" => reqs[s].tts = 0
        /\ reqs[s].stt > 0 =>
              /\ reqs[s].tags = 1
              /\ seen[s].ollama \in {"present", "absent"}
              /\ seen[s].ollama = "absent" => (reqs[s].pull = 1 /\ ollamaHas)
              /\ failedAt[s] \notin {"ollama_tags", "ollama_pull"}
        /\ reqs[s].tts > 0 => (reqs[s].stt = 1 /\ PastStt(s))
        /\ failedAt[s] \in {"ollama_tags", "ollama_pull"} => SpeachesReqs(s) = 0
        /\ failedAt[s] = "stt_post" => reqs[s].tts = 0

\* C20 witness: the model was pulled, then the STT request was answered, and
\* the TTS request is in flight - one request of each step, in that order.
C20_Witness ==
    \E s \in Sessions :
        /\ pc[s] = "tts_post" /\ seen[s].ollama = "absent"
        /\ reqs[s] = [tags |-> 1, pull |-> 1, stt |-> 1, tts |-> 1]

\* Clients session s has opened and not closed.
OpenClients(s) == clients[s].opened - clients[s].closed

\* C21: a session holds exactly one open client while one of its provisioning
\* requests is in flight - the first client during ensure_ollama_model, the
\* second during ensure_speaches_models - and none once the call has resolved,
\* by a normal return or by any exception, every client closed once; and the
\* session fails with the exception its request ended with - the timeout
\* exactly when the request had timed out - raised once.
C21_ClientRelease ==
    /\ [](\A s \in Sessions :
            /\ pc[s] \in InFlight => OpenClients(s) = 1
            /\ pc[s] \notin InFlight => OpenClients(s) = 0
            /\ pc[s] \in {"ollama_tags", "ollama_pull"} => clients[s].opened = 1
            /\ pc[s] \in {"stt_post", "tts_post"} => clients[s].opened = 2
            /\ PastTts(s) => (clients[s].opened = 2 /\ clients[s].closed = 2)
            /\ failedAt[s] \in {"ollama_tags", "ollama_pull"} =>
                  (clients[s].opened = 1 /\ clients[s].closed = 1)
            /\ failedAt[s] \in {"stt_post", "tts_post"} =>
                  (clients[s].opened = 2 /\ clients[s].closed = 2)
            /\ ProvisioningFailed(s) => (err[s] # "none" /\ raised[s] = 1))
    /\ [][\A s \in Sessions :
            (pc[s] \in InFlight /\ pc'[s] = "failed") =>
                /\ err'[s] \in TransportErrors
                /\ err'[s] = "timeout" <=> elapsed[s] >= DefaultTimeout]_vars

\* C21 witness: the TTS request timed out; both clients the session opened
\* are closed and the timeout is what the session failed with.
C21_Witness ==
    \E s \in Sessions :
        /\ failedAt[s] = "tts_post" /\ err[s] = "timeout"
        /\ clients[s] = [opened |-> 2, closed |-> 2]

====
